---- MODULE Spec2Model ----
(***************************************************************************)
(* The callout rewriter of src/lib/remark-callouts.ts: a remark plugin     *)
(* that visits every blockquote of an mdast tree and rewrites those whose  *)
(* first paragraph starts with a [!TYPE] link reference.                   *)
(*                                                                         *)
(* Strings are sequences of pieces.  Identifiers, text values and labels   *)
(* are sequences of one-character pieces, so that case folding, the        *)
(* anchored pattern match and whitespace trimming are computed character   *)
(* by character.  An optional JavaScript value (a property that may be     *)
(* undefined) is a sequence of length at most one: << >> is undefined.     *)
(* The tree is an arena: tree[n] is the node with identity n, the root is  *)
(* node 1, and a container's children are the identities of its child      *)
(* nodes.  A paragraph's children are its inline nodes, held by value.     *)
(***************************************************************************)
EXTENDS Integers, Sequences, FiniteSets, TLC

VARIABLES tree, input, stack, pc, outputs, icons, calls, other, served

vars == <<tree, input, stack, pc, outputs, icons, calls, other, served>>

\* tree:    the arena (every node object of the process), root of the
\*          document at node 1
\* input:   the document as the parser handed it over
\* stack:   the position of the traversal of the document
\* pc:      idle, visiting, or threw
\* outputs: the arena as each completed pass over the document returned it
\* icons:   the module-level iconPaths object, shared by every invocation
\* calls:   the blockquotes the visitor was called on in the current pass
\* other:   a second invocation of the transformer, on a document of its own
\* served:  the number of documents the second invocation has completed

-----------------------------------------------------------------------------
(* Bounds of the model *)

\* Number of consecutive passes of the transform over one tree.
MaxPasses == 2
\* Number of inline nodes that follow the first inline node of a generated
\* first paragraph.
MaxRest == 2

\* Documents a second invocation of the same transform takes, one after the
\* other.
MaxDocs == 2

-----------------------------------------------------------------------------
(* Characters and strings *)

Lowers == <<"a","b","c","d","e","f","g","h","i","j","k","l","m",
            "n","o","p","q","r","s","t","u","v","w","x","y","z">>
Uppers == <<"A","B","C","D","E","F","G","H","I","J","K","L","M",
            "N","O","P","Q","R","S","T","U","V","W","X","Y","Z">>

\* String.prototype.toLowerCase on one character.
toLowerCaseChar(c) ==
    IF \E i \in DOMAIN Uppers : Uppers[i] = c
    THEN Lowers[CHOOSE i \in DOMAIN Uppers : Uppers[i] = c]
    ELSE c

\* String.prototype.toUpperCase on one character.
toUpperCaseChar(c) ==
    IF \E i \in DOMAIN Lowers : Lowers[i] = c
    THEN Uppers[CHOOSE i \in DOMAIN Lowers : Lowers[i] = c]
    ELSE c

toLowerCaseIdentity(s) == s

\* match[1].toLowerCase()
toLowerCase(s) == [i \in 1..Len(s) |-> toLowerCaseChar(s[i])]

\* The characters the pattern class \s matches (those the model uses).
WhiteSpace == {" ", "\n", "\t", "\r"}

\* The five keywords of the CalloutType union.
note == <<"n","o","t","e">>
tip == <<"t","i","p">>
important == <<"i","m","p","o","r","t","a","n","t">>
warning == <<"w","a","r","n","i","n","g">>
caution == <<"c","a","u","t","i","o","n">>

CalloutType == {note, tip, important, warning, caution}

isCalloutType(value) == value \in CalloutType

\* The Lucide icon path of each callout type.
iconPaths(type) ==
    CASE type = note -> "M12 16v-4m0-4h.01M22 12c0 5.523-4.477 10-10 10S2 17.523 2 12 6.477 2 12 2s10 4.477 10 10z"
      [] type = tip -> "M15 14c.2-1 .7-1.7 1.5-2.5 1-.9 1.5-2.2 1.5-3.5A6 6 0 0 0 6 8c0 1 .2 2.2 1.5 3.5.7.7 1.3 1.5 1.5 2.5M9 18h6M10 22h4"
      [] type = important -> "M12 9v4m0 4h.01M10.29 3.86 1.82 18a2 2 0 0 0 1.71 3h16.94a2 2 0 0 0 1.71-3L13.71 3.86a2 2 0 0 0-3.42 0z"
      [] type = warning -> "M12 9v4m0 4h.01M10.29 3.86 1.82 18a2 2 0 0 0 1.71 3h16.94a2 2 0 0 0 1.71-3L13.71 3.86a2 2 0 0 0-3.42 0z"
      [] type = caution -> "M12 8v4m0 4h.01M7.86 2h8.28L22 7.86v8.28L16.14 22H7.86L2 16.14V7.86z"

\* The class names the rewriter attaches.
calloutLabel == <<"c","a","l","l","o","u","t">>
calloutPrefix == <<"c","a","l","l","o","u","t","-">>
calloutTitleLabel == <<"c","a","l","l","o","u","t","-","t","i","t","l","e">>

svgOpen == "<svg class=\"callout-icon\" xmlns=\"http://www.w3.org/2000/svg\" width=\"20\" height=\"20\" viewBox=\"0 0 24 24\" fill=\"none\" stroke=\"currentColor\" stroke-width=\"2\" stroke-linecap=\"round\" stroke-linejoin=\"round\"><path d=\""
svgClose == "\"/></svg>"

-----------------------------------------------------------------------------
(* Nodes *)

Undefined == << >>
Some(x) == <<x>>

\* Inline (phrasing) nodes: the fields a link reference has besides its
\* identifier (label, referenceType, children) are undefined or empty in
\* the other nodes.
Inline(t, v, id, label, referenceType, ch) ==
    [type |-> t, value |-> v, identifier |-> id,
     label |-> label, referenceType |-> referenceType, children |-> ch]
Text(v) == Inline("text", v, Undefined, Undefined, Undefined, << >>)
LinkReferenceWith(id, label, referenceType, ch) ==
    Inline("linkReference", << >>, id, label, Some(referenceType), ch)
LinkReference(id) == LinkReferenceWith(id, Undefined, "shortcut", << >>)
Emphasis == Inline("emphasis", << >>, Undefined, Undefined, Undefined, << >>)
HtmlNode(v) == Inline("html", v, Undefined, Undefined, Undefined, << >>)

\* node.data: the entries the rewriter reads or must keep.
NoProps == [className |-> Undefined, id |-> Undefined]
NoDataEntries == [hProperties |-> Undefined, hName |-> Undefined]

\* Block nodes.
Node(t, ch, d) == [type |-> t, children |-> ch, data |-> d]
Root(ch) == Node("root", ch, Undefined)
Blockquote(ch, d) == Node("blockquote", ch, d)
Paragraph(ch) == Node("paragraph", ch, Undefined)
List(ch) == Node("list", ch, Undefined)
ListItem(ch) == Node("listItem", ch, Undefined)
Code == Node("code", << >>, Undefined)

\* Node types that carry a children array.
ParentTypes == {"root", "blockquote", "paragraph", "list", "listItem"}
\* Node types whose children are block nodes (held in the arena).
ContainerTypes == {"root", "blockquote", "list", "listItem"}

\* Only references written as [text] pass for link references.
isShortcutReference(node) ==
    node.type = "linkReference" /\ node.referenceType = Some("shortcut")

isLinkReference(node) == node.type = "linkReference"
isTextNode(node) == node.type = "text"

-----------------------------------------------------------------------------
(* JavaScript primitives the rewriter uses *)

\* array[i], zero-based: undefined when i is out of range.
ArrayAt(a, i) == IF i + 1 \in DOMAIN a THEN Some(a[i + 1]) ELSE Undefined

\* value || fallback, for a value that is undefined or an object.
OrElse(opt, fallback) == IF opt = Undefined THEN fallback ELSE opt[1]

\* identifier || '': the empty string is falsy as well.
identifierOrEmpty(node) == OrElse(node.identifier, << >>)

\* The array is read but its first element is not removed.
shiftNothing(a) == a

\* Array.prototype.shift: the array without its first element.
shift(a) == Tail(a)

\* Array.prototype.unshift: x inserted at index 0.
unshift(a, x) == <<x>> \o a

trimStartNothing(v) == v

\* value.replace(/^\s+/, ''): the value without its leading run of whitespace.
RECURSIVE replaceLeadingWhitespace(_)
replaceLeadingWhitespace(v) ==
    IF v # << >> /\ Head(v) \in WhiteSpace
    THEN replaceLeadingWhitespace(Tail(v))
    ELSE v

\* /^\s/ in place of /^\s+/: only one whitespace character is removed.
trimStartOnce(v) == IF v # << >> /\ Head(v) \in WhiteSpace THEN Tail(v) ELSE v

\* Whitespace is removed at both ends of the value.
trimBothEnds(v) ==
    LET w == replaceLeadingWhitespace(v)
        kept == { i \in DOMAIN w : w[i] \notin WhiteSpace }
    IN  SubSeq(w, 1, IF kept = { } THEN 0 ELSE CHOOSE i \in kept : \A l \in kept : l <= i)

trimStart(v) == replaceLeadingWhitespace(v)

\* Case folding of a pattern with the i flag (and no u flag): toUpperCase.
Canonicalize(c) == toUpperCaseChar(c)

\* s is matched by the literal keyword k under the i flag.
MatchesKeyword(s, k) ==
    /\ Len(s) = Len(k)
    /\ \A i \in 1..Len(k) : Canonicalize(s[i]) = Canonicalize(k[i])

\* The pattern without its trailing $ anchor: the keyword may be followed by
\* anything.
calloutPatternUnanchored(identifier) ==
    IF /\ Len(identifier) >= 1
       /\ identifier[1] = "!"
       /\ \E k \in CalloutType :
             /\ Len(identifier) >= 1 + Len(k)
             /\ MatchesKeyword(SubSeq(identifier, 2, 1 + Len(k)), k)
    THEN LET k == CHOOSE k \in CalloutType :
                     /\ Len(identifier) >= 1 + Len(k)
                     /\ MatchesKeyword(SubSeq(identifier, 2, 1 + Len(k)), k)
         IN  Some(SubSeq(identifier, 2, 1 + Len(k)))
    ELSE Undefined

\* identifier.match(/^!(note|tip|important|warning|caution)$/i): the captured
\* group match[1] (in the identifier's own letter case), or undefined (null).
calloutPattern(identifier) ==
    IF /\ Len(identifier) >= 1
       /\ identifier[1] = "!"
       /\ \E k \in CalloutType : MatchesKeyword(Tail(identifier), k)
    THEN Some(Tail(identifier))
    ELSE Undefined

\* type.charAt(0).toUpperCase() + type.slice(1)
capitalize(type) == <<toUpperCaseChar(type[1])>> \o Tail(type)

-----------------------------------------------------------------------------
(* The visitor of remarkCallouts *)

noChildrenNever(node) == FALSE

\* !node.children || node.children.length === 0
noChildren(node) == node.type \notin ParentTypes \/ Len(node.children) = 0

\* firstChild.type !== 'paragraph'
notParagraph(node) == node.type # "paragraph"

noFirstNodeNever(firstNode) == FALSE

\* !firstNode
noFirstNode(firstNode) == firstNode = Undefined

\* Index i is ignored in a paragraph that holds a link reference: the first
\* link reference is handed over, wherever it stands.
childAtAnyLinkReference(h, parent, i) ==
    LET c == ArrayAt(parent.children, i)
        refs == { j \in DOMAIN parent.children :
                    parent.children[j].type = "linkReference" }
    IN
    IF c = Undefined THEN Undefined
    ELSE IF parent.type = "paragraph"
         THEN IF refs = { } THEN c
              ELSE Some(parent.children[CHOOSE j \in refs : \A l \in refs : j <= l])
         ELSE Some(h[c[1]])

\* In a blockquote, children that carry a class name (title nodes) are
\* passed over: index i counts among the others.
childAtSkippingTitle(h, parent, i) ==
    IF parent.type = "paragraph"
    THEN ArrayAt(parent.children, i)
    ELSE LET plain == SelectSeq(parent.children, LAMBDA c : h[c].data = Undefined) IN
         IF i + 1 \in DOMAIN plain THEN Some(h[plain[i + 1]]) ELSE Undefined

\* The node at index i of parent's children: an inline node of a paragraph,
\* the arena's node for any other container; undefined when out of range.
childAt(h, parent, i) ==
    LET c == ArrayAt(parent.children, i) IN
    IF c = Undefined THEN Undefined
    ELSE IF parent.type = "paragraph" THEN c ELSE Some(h[c[1]])

\* The svgIcon node: the icon markup around the path the shared table holds
\* for the type.
svgIcon(type) == HtmlNode(<<svgOpen, icons[type], svgClose>>)

titleChildrenSwapped(type) == <<Text(capitalize(type)), svgIcon(type)>>

\* The children of the title node: the icon, then the capitalized type.
titleChildren(type) == <<svgIcon(type), Text(capitalize(type))>>

\* The titleNode: a paragraph with class callout-title.
titleNode(type) ==
    Node("paragraph", titleChildren(type),
         Some([NoDataEntries EXCEPT !.hProperties =
                  Some([NoProps EXCEPT !.className = Some(<<calloutTitleLabel>>)])]))

classNameKeepCase(type, matched) == <<calloutLabel, calloutPrefix \o matched>>

\* ['callout', `callout-${type}`]; matched is match[1], type its lower case.
className(type, matched) == <<calloutLabel, calloutPrefix \o type>>

\* className.push('callout', `callout-${type}`): the labels are added to
\* the ones the node has.
withClassNameAppended(data, cls) ==
    LET d  == OrElse(data, NoDataEntries)
        hp == OrElse(d.hProperties, NoProps)
    IN  Some([d EXCEPT !.hProperties =
                 Some([hp EXCEPT !.className = Some(OrElse(hp.className, << >>) \o cls)])])

\* node.data is replaced by a fresh object that holds the class names only.
withClassNameOnly(data, cls) ==
    Some([NoDataEntries EXCEPT !.hProperties = Some([NoProps EXCEPT !.className = Some(cls)])])

\* data = data || {}; data.hProperties = data.hProperties || {};
\* data.hProperties.className = cls
withClassName(data, cls) ==
    LET d  == OrElse(data, NoDataEntries)
        hp == OrElse(d.hProperties, NoProps)
    IN  Some([d EXCEPT !.hProperties = Some([hp EXCEPT !.className = Some(cls)])])

paragraphEmptyNever(p) == FALSE

\* A paragraph that holds nothing but whitespace counts as empty too.
paragraphBlank(p) ==
    \A i \in DOMAIN p.children :
       /\ p.children[i].type = "text"
       /\ \A j \in DOMAIN p.children[i].value : p.children[i].value[j] \in WhiteSpace

\* firstChild.children.length === 0
paragraphEmpty(p) == Len(p.children) = 0

\* push in place of unshift: the title goes last.
insertTitleLast(ch, titleId) == Append(ch, titleId)

\* node.children[0] = titleNode: the title takes the place of the first child.
insertTitleReplacing(ch, titleId) ==
    IF ch = << >> THEN <<titleId>> ELSE <<titleId>> \o Tail(ch)

\* node.children = [titleNode, first of the children left]: the rest is dropped.
insertTitleKeepFirst(ch, titleId) ==
    IF ch = << >> THEN <<titleId>> ELSE <<titleId, Head(ch)>>

\* node.children.unshift(titleNode)
insertTitle(ch, titleId) == unshift(ch, titleId)

\* The inline nodes ch without the link references they start with.
RECURSIVE dropLeadingReferences(_)
dropLeadingReferences(ch) ==
    IF ch # << >> /\ isLinkReference(Head(ch))
    THEN dropLeadingReferences(Tail(ch))
    ELSE ch

\* The rewrite takes every leading link reference off the first paragraph.
rewriteStrippingAll(h, n, fc, type, matched) ==
    LET h1 == [h EXCEPT ![fc].children = dropLeadingReferences(@)]
        h2 == IF Len(h1[fc].children) > 0 /\ isTextNode(h1[fc].children[1])
              THEN [h1 EXCEPT ![fc].children[1].value = trimStart(@)]
              ELSE h1
        h3 == IF paragraphEmpty(h2[fc])
              THEN [h2 EXCEPT ![n].children = shift(@)]
              ELSE h2
        h4 == [h3 EXCEPT ![n].data = withClassName(@, className(type, matched))]
        titleId == Len(h4) + 1
        h5 == Append(h4, titleNode(type))
    IN  [h5 EXCEPT ![n].children = insertTitle(@, titleId)]

\* The rewrite also takes the first inline node off the first paragraph of
\* each blockquote that is a child of n.
rewriteFlattening(h, n, fc, type, matched) ==
    LET h1 == [h EXCEPT ![fc].children = shift(@)]
        h2 == IF Len(h1[fc].children) > 0 /\ isTextNode(h1[fc].children[1])
              THEN [h1 EXCEPT ![fc].children[1].value = trimStart(@)]
              ELSE h1
        h3 == IF paragraphEmpty(h2[fc])
              THEN [h2 EXCEPT ![n].children = shift(@)]
              ELSE h2
        h4 == [h3 EXCEPT ![n].data = withClassName(@, className(type, matched))]
        titleId == Len(h4) + 1
        h5 == Append(h4, titleNode(type))
        h6 == [h5 EXCEPT ![n].children = insertTitle(@, titleId)]
        inner == { h[c].children[1] :
                     c \in { c \in { h[n].children[i] : i \in DOMAIN h[n].children } :
                               /\ h[c].type = "blockquote"
                               /\ Len(h[c].children) > 0
                               /\ h[h[c].children[1]].type = "paragraph"
                               /\ Len(h[h[c].children[1]].children) > 0 } }
    IN  [m \in DOMAIN h6 |-> IF m \in inner THEN [h6[m] EXCEPT !.children = shift(@)] ELSE h6[m]]

\* The body of the if (match) branch: the rewrite of blockquote n of arena h,
\* whose first child is paragraph fc.
rewrite(h, n, fc, type, matched) ==
    LET h1 == [h EXCEPT ![fc].children = shift(@)]
        h2 == IF Len(h1[fc].children) > 0 /\ isTextNode(h1[fc].children[1])
              THEN [h1 EXCEPT ![fc].children[1].value = trimStart(@)]
              ELSE h1
        h3 == IF paragraphEmpty(h2[fc])
              THEN [h2 EXCEPT ![n].children = shift(@)]
              ELSE h2
        h4 == [h3 EXCEPT ![n].data = withClassName(@, className(type, matched))]
        titleId == Len(h4) + 1
        h5 == Append(h4, titleNode(type))
    IN  [h5 EXCEPT ![n].children = insertTitle(@, titleId)]

Skip(h) == [tree |-> h, threw |-> FALSE]
Throw(h) == [tree |-> h, threw |-> TRUE]

\* The leading link reference is shifted off before its identifier is
\* tested against the pattern.
visitorStripsEarly(h, n) ==
    LET node == h[n] IN
    IF noChildren(node) THEN Skip(h)
    ELSE
    LET firstChild == childAt(h, node, 0) IN
    IF firstChild = Undefined THEN Throw(h)
    ELSE IF notParagraph(firstChild[1]) THEN Skip(h)
    ELSE
    LET fc == node.children[1]
        firstNode == childAt(h, firstChild[1], 0)
    IN
    IF noFirstNode(firstNode) THEN Skip(h)
    ELSE IF firstNode = Undefined THEN Throw(h)
    ELSE IF ~isLinkReference(firstNode[1]) THEN Skip(h)
    ELSE
    LET identifier == identifierOrEmpty(firstNode[1])
        match == calloutPattern(identifier)
        stripped == [h EXCEPT ![fc].children = shift(@)]
    IN
    IF match = Undefined THEN Skip(stripped)
    ELSE
    LET typeMatch == toLowerCase(match[1]) IN
    IF ~isCalloutType(typeMatch) THEN Skip(stripped)
    ELSE [tree |-> rewrite(h, n, fc, typeMatch, match[1]), threw |-> FALSE]

\* The visitor called on blockquote n of arena h: the arena it leaves, and
\* whether it threw a TypeError (a property read on undefined).
visitor(h, n) ==
    LET node == h[n] IN
    IF noChildren(node) THEN Skip(h)
    ELSE
    LET firstChild == childAt(h, node, 0) IN
    IF firstChild = Undefined THEN Throw(h)
    ELSE IF notParagraph(firstChild[1]) THEN Skip(h)
    ELSE
    LET fc == node.children[1]
        firstNode == childAt(h, firstChild[1], 0)
    IN
    IF noFirstNode(firstNode) THEN Skip(h)
    ELSE IF firstNode = Undefined THEN Throw(h)
    ELSE IF ~isLinkReference(firstNode[1]) THEN Skip(h)
    ELSE
    LET identifier == identifierOrEmpty(firstNode[1])
        match == calloutPattern(identifier)
    IN
    IF match = Undefined THEN Skip(h)
    ELSE
    LET typeMatch == toLowerCase(match[1]) IN
    IF ~isCalloutType(typeMatch) THEN Skip(h)
    ELSE [tree |-> rewrite(h, n, fc, typeMatch, match[1]), threw |-> FALSE]

-----------------------------------------------------------------------------
(* Input trees *)

\* Text values.
useShortcuts == <<"\n","U","s","e"," ","s","h","o","r","t","c","u","t","s",".">>
blank == <<" ","\n">>
spaced == <<"\t"," ","a"," ","b"," ">>
plain == <<"b"," ">>

\* Identifiers the parser may hand over: recognized ones in several letter
\* cases, and near misses.
SampleIdentifiers ==
    { <<"!">> \o note,
      <<"!","T","I","P">>,
      <<"!","I","m","p","o","r","t","a","n","t">>,
      <<"!","w","A","r","N","i","N","g">>,
      <<"!","C","A","U","T","I","O","N">>,
      <<"!","d","a","n","g","e","r">>,
      <<"!","n","o","t","e"," ","e","x","t","r","a">>,
      <<"!","n","o","t","e","s">>,
      <<"x","!","t","i","p">>,
      note,
      <<"!">>,
      << >> }

\* Every letter-casing of keyword k.
AllCasings(k) ==
    { [i \in 1..Len(k) |-> IF i \in S THEN toUpperCaseChar(k[i]) ELSE k[i]] :
        S \in SUBSET (1..Len(k)) }

CasingIdentifiers == { <<"!">> \o c : c \in UNION { AllCasings(k) : k \in CalloutType } }

\* Inline nodes that may follow the first inline node of a paragraph.
RestAlphabet ==
    { Text(useShortcuts), Text(blank), Text(spaced), Emphasis,
      LinkReference(Some(<<"!">> \o tip)) }

Rests == UNION { [1..k -> RestAlphabet] : k \in 0..MaxRest }

LeadNodes ==
    { LinkReference(Some(id)) : id \in SampleIdentifiers }
      \cup { LinkReference(Undefined), Text(plain), HtmlNode(<<"<br>">>) }

\* First paragraphs: any lead node (or none) before any rest.
FullParagraphs == Rests \cup { <<l>> \o r : l \in LeadNodes, r \in Rests }

\* First paragraphs led by a recognized marker in any letter-casing.
CasingParagraphs ==
    { <<LinkReference(Some(id))>> \o r :
        id \in CasingIdentifiers, r \in { << >>, <<Text(useShortcuts)>> } }

\* A smaller set of paragraphs, for trees with several paragraphs.
FewParagraphs ==
    { <<l>> \o r :
        l \in { LinkReference(Some(<<"!">> \o note)),
                LinkReference(Some(<<"!","T","I","P">>)),
                LinkReference(Some(<<"!","d","a","n","g","e","r">>)),
                Text(blank) },
        r \in { << >>, <<Text(useShortcuts)>>,
                <<LinkReference(Some(<<"!">> \o warning))>>,
                <<Emphasis, Text(blank)>> } }

\* First paragraphs led by link references of one identifier that differ in
\* label, reference kind and displayed children.
VariantParagraphs ==
    { <<LinkReferenceWith(Some(<<"!">> \o note), label, kind, ch)>> \o r :
        label \in { Undefined, Some(<<"!","N","O","T","E">>), Some(<<"!","N","o","t","e">>) },
        kind \in { "shortcut", "collapsed", "full" },
        ch \in { << >>, <<Text(<<"!","N","O","T","E">>)>>, <<Emphasis, Text(blank)>> },
        r \in { << >>, <<Text(useShortcuts)>> } }

\* node.data as the parser or an earlier plugin may have left it.
DataOptions ==
    { Undefined,
      Some(NoDataEntries),
      Some([hProperties |-> Some([className |-> Undefined, id |-> Some("intro")]),
            hName |-> Undefined]),
      Some([hProperties |-> Some([className |-> Some(<<<<"q">>>>), id |-> Some("intro")]),
            hName |-> Some("aside")]) }

\* root > blockquote > paragraph
DocOne(p, d) == <<Root(<<2>>), Blockquote(<<3>>, d), Paragraph(p)>>
\* root > blockquote > [paragraph, paragraph]
DocTwo(p, q) == <<Root(<<2>>), Blockquote(<<3, 4>>, Undefined), Paragraph(p), Paragraph(q)>>
\* root > [blockquote (no children), blockquote > [code, paragraph]]
DocGuards(p) ==
    <<Root(<<2, 3>>), Blockquote(<< >>, Undefined), Blockquote(<<4, 5>>, Undefined),
      Code, Paragraph(p)>>
\* root > blockquote > list > listItem > paragraph
DocListFirst(p) ==
    <<Root(<<2>>), Blockquote(<<3>>, Undefined), List(<<4>>), ListItem(<<5>>), Paragraph(p)>>
\* root > blockquote > [blockquote > paragraph, paragraph]
DocNestedFirst(p, q) ==
    <<Root(<<2>>), Blockquote(<<3, 5>>, Undefined), Blockquote(<<4>>, Undefined),
      Paragraph(p), Paragraph(q)>>
\* root > blockquote > [paragraph, blockquote > paragraph]
DocNestedLater(p, q) ==
    <<Root(<<2>>), Blockquote(<<3, 4>>, Undefined), Paragraph(p),
      Blockquote(<<5>>, Undefined), Paragraph(q)>>
\* root > [list > listItem > blockquote > paragraph, blockquote > paragraph]
DocInList(p, q) ==
    <<Root(<<2, 6>>), List(<<3>>), ListItem(<<4>>), Blockquote(<<5>>, Undefined),
      Paragraph(p), Blockquote(<<7>>, Undefined), Paragraph(q)>>

\* Paragraphs for the tree with three nested blockquotes.
DeepParagraphs ==
    { <<LinkReference(Some(<<"!">> \o note))>>,
      <<LinkReference(Some(<<"!","T","I","P">>)), Text(useShortcuts)>>,
      <<Text(plain)>> }

\* root > blockquote > [paragraph, list > listItem > blockquote >
\*                                     [paragraph, blockquote > paragraph]]
DocDeep(p, q, r) ==
    <<Root(<<2>>), Blockquote(<<3, 4>>, Undefined), Paragraph(p), List(<<5>>),
      ListItem(<<6>>), Blockquote(<<7, 8>>, Undefined), Paragraph(q),
      Blockquote(<<9>>, Undefined), Paragraph(r)>>

\* root > blockquote > [paragraph, paragraph, list > listItem > paragraph,
\*                      code, blockquote > paragraph]
DocMixed(p, q) ==
    <<Root(<<2>>), Blockquote(<<3, 4, 5, 8, 9>>, Undefined), Paragraph(p),
      Paragraph(<<Text(spaced)>>), List(<<6>>), ListItem(<<7>>),
      Paragraph(<<Text(plain)>>), Code, Blockquote(<<10>>, Undefined), Paragraph(q)>>

InputTrees ==
    { DocOne(p, Undefined) : p \in FullParagraphs \cup CasingParagraphs }
      \cup { DocOne(p, d) : p \in FewParagraphs, d \in DataOptions }
      \cup { DocTwo(p, q) : p \in FewParagraphs, q \in FewParagraphs }
      \cup { DocGuards(p) : p \in FewParagraphs }
      \cup { DocListFirst(p) : p \in FewParagraphs }
      \cup { DocNestedFirst(p, q) : p \in FewParagraphs, q \in FewParagraphs }
      \cup { DocNestedLater(p, q) : p \in FewParagraphs, q \in FewParagraphs }
      \cup { DocInList(p, q) : p \in FewParagraphs, q \in FewParagraphs }
      \cup { DocDeep(p, q, r) :
                p \in DeepParagraphs, q \in DeepParagraphs, r \in DeepParagraphs }
      \cup { DocMixed(p, q) : p \in DeepParagraphs, q \in DeepParagraphs }
      \cup { DocOne(p, Undefined) : p \in VariantParagraphs }

-----------------------------------------------------------------------------
(* The pass: visit(tree, 'blockquote', visitor) *)

\* The traversal's position: one frame per node being walked, with the
\* offset of the child to walk next.
Frame(n, offset) == [node |-> n, offset |-> offset]

Top == stack[Len(stack)]

\* The child the traversal walks next, if there is one.
HasNext == pc = "visiting" /\ Top.offset < Len(tree[Top.node].children)
NextChild == tree[Top.node].children[Top.offset + 1]

\* The walk moves on by two siblings.
AdvanceTwo(s) == [s EXCEPT ![Len(s)].offset = @ + 2]

Advance(s) == [s EXCEPT ![Len(s)].offset = @ + 1]

\* The module-level table as the module's evaluation leaves it.
iconTable == [type \in CalloutType |-> iconPaths(type)]

\* No second invocation.
NoOther == [tree |-> << >>, input |-> << >>, stack |-> << >>, pc |-> "none", met |-> FALSE]

Init ==
    /\ input \in InputTrees
    /\ tree = input
    /\ stack = << >>
    /\ pc = "idle"
    /\ outputs = << >>
    /\ icons = iconTable
    /\ calls = << >>
    /\ other = NoOther
    /\ served = 0

\* transform(tree): the traversal starts at the root, which is no blockquote.
Transform ==
    /\ pc = "idle"
    /\ Len(outputs) < MaxPasses
    /\ pc' = "visiting"
    /\ stack' = <<Frame(1, 0)>>
    /\ calls' = << >>
    /\ UNCHANGED <<tree, input, outputs, icons, other, served>>

\* The visitor's result makes the traversal skip the blockquote's children.
VisitBlockquoteNoDescend ==
    /\ HasNext
    /\ tree[NextChild].type = "blockquote"
    /\ LET r == visitor(tree, NextChild) IN
         /\ tree' = r.tree
         /\ IF r.threw
            THEN pc' = "threw" /\ stack' = << >>
            ELSE pc' = pc /\ stack' = Advance(stack)
    /\ calls' = Append(calls, NextChild)
    /\ UNCHANGED <<input, outputs, icons, other, served>>

\* The visitor memoizes the icon markup in the shared table.
VisitBlockquoteMemo ==
    /\ HasNext
    /\ tree[NextChild].type = "blockquote"
    /\ LET r == visitor(tree, NextChild) IN
         /\ tree' = r.tree
         /\ IF r.threw
            THEN pc' = "threw" /\ stack' = << >>
            ELSE pc' = pc /\ stack' = Append(stack, Frame(NextChild, 0))
         /\ icons' = IF r.tree = tree THEN icons
                     ELSE [type \in CalloutType |-> "cached"]
    /\ calls' = Append(calls, NextChild)
    /\ UNCHANGED <<input, outputs, other, served>>

\* The traversal reaches a blockquote: the visitor runs on it, then its
\* (possibly rewritten) children are walked.
VisitBlockquote ==
    /\ HasNext
    /\ tree[NextChild].type = "blockquote"
    /\ LET r == visitor(tree, NextChild) IN
         /\ tree' = r.tree
         /\ IF r.threw
            THEN pc' = "threw" /\ stack' = << >>
            ELSE pc' = pc /\ stack' = Append(stack, Frame(NextChild, 0))
    /\ calls' = Append(calls, NextChild)
    /\ UNCHANGED <<input, outputs, icons, other, served>>

\* The traversal reaches another container: its children are walked.
Enter ==
    /\ HasNext
    /\ tree[NextChild].type \in ContainerTypes \ {"blockquote"}
    /\ stack' = Append(stack, Frame(NextChild, 0))
    /\ UNCHANGED <<tree, input, pc, outputs, icons, calls, other, served>>

\* The traversal reaches a paragraph or a leaf: nothing below it is a
\* blockquote, so the walk moves on to the next sibling.
Leaf ==
    /\ HasNext
    /\ tree[NextChild].type \notin ContainerTypes
    /\ stack' = Advance(stack)
    /\ UNCHANGED <<tree, input, pc, outputs, icons, calls, other, served>>

\* All children of the node on top are walked: back to its parent.
Return ==
    /\ pc = "visiting"
    /\ Len(stack) > 1
    /\ Top.offset >= Len(tree[Top.node].children)
    /\ stack' = Advance(SubSeq(stack, 1, Len(stack) - 1))
    /\ UNCHANGED <<tree, input, pc, outputs, icons, calls, other, served>>

\* All children of the root are walked: the pass returns the tree.
Finish ==
    /\ pc = "visiting"
    /\ Len(stack) = 1
    /\ Top.offset >= Len(tree[Top.node].children)
    /\ pc' = "idle"
    /\ stack' = << >>
    /\ outputs' = Append(outputs, tree)
    /\ UNCHANGED <<tree, input, icons, calls, other, served>>

Next == Transform \/ VisitBlockquote \/ Enter \/ Leaf \/ Return \/ Finish

Spec == Init /\ [][Next]_vars

\* The trees with several blockquotes: side by side, nested, in lists.
WalkTrees ==
    { DocGuards(p) : p \in DeepParagraphs }
      \cup { DocNestedFirst(p, q) : p \in DeepParagraphs, q \in DeepParagraphs }
      \cup { DocNestedLater(p, q) : p \in DeepParagraphs, q \in DeepParagraphs }
      \cup { DocInList(p, q) : p \in DeepParagraphs, q \in DeepParagraphs }
      \cup { DocDeep(p, q, r) :
                p \in DeepParagraphs, q \in DeepParagraphs, r \in DeepParagraphs }

InitWalk ==
    /\ input \in WalkTrees
    /\ tree = input
    /\ stack = << >>
    /\ pc = "idle"
    /\ outputs = << >>
    /\ icons = iconTable
    /\ calls = << >>
    /\ other = NoOther
    /\ served = 0

\* The move of the traversal at a blockquote, whatever the visitor does to
\* the tree: down into the blockquote, or out of the pass on a throw.
Descend ==
    /\ HasNext
    /\ tree[NextChild].type = "blockquote"
    /\ stack' \in {Append(stack, Frame(NextChild, 0)), << >>}

\* transform is synchronous: a traversal that has started makes its next
\* move. (A caller need not start another pass.)
FairSpec ==
    /\ InitWalk /\ [][Next]_vars
    /\ WF_stack(Descend) /\ WF_vars(Enter) /\ WF_vars(Leaf)
    /\ WF_vars(Return) /\ WF_vars(Finish)

-----------------------------------------------------------------------------
(* Vocabulary of the properties *)

\* At least one pass over the tree has completed.
Passed == Len(outputs) >= 1

InputBlockquotes == { n \in DOMAIN input : input[n].type = "blockquote" }

Range(s) == { s[i] : i \in DOMAIN s }

\* s is keyword k in some letter-casing.
IsCasingOf(s, k) ==
    /\ Len(s) = Len(k)
    /\ \A i \in 1..Len(k) :
          \/ s[i] = k[i]
          \/ \E j \in DOMAIN Lowers : Lowers[j] = k[i] /\ Uppers[j] = s[i]

\* Keyword k with only its first letter upper-cased.
Capitalized(k) ==
    [i \in 1..Len(k) |->
        IF i = 1 THEN Uppers[CHOOSE j \in DOMAIN Lowers : Lowers[j] = k[1]] ELSE k[i]]

\* The first child of blockquote n of arena h, if it is a paragraph.
FirstParagraph(h, n) ==
    IF Len(h[n].children) > 0 /\ h[h[n].children[1]].type = "paragraph"
    THEN { h[n].children[1] }
    ELSE { }

\* The keywords k such that the first paragraph of blockquote n of arena h
\* starts with a link reference whose identifier is '!' and a casing of k.
MarkerKeywords(h, n) ==
    { k \in CalloutType :
        \E p \in FirstParagraph(h, n) :
           /\ Len(h[p].children) > 0
           /\ h[p].children[1].type = "linkReference"
           /\ h[p].children[1].identifier # Undefined
           /\ LET id == h[p].children[1].identifier[1] IN
                /\ Len(id) = 1 + Len(k)
                /\ id[1] = "!"
                /\ IsCasingOf(Tail(id), k) }

Matched == { n \in InputBlockquotes : MarkerKeywords(input, n) # { } }

\* The class names of node n of arena h (none: the empty list).
Labels(h, n) ==
    IF h[n].data = Undefined THEN << >>
    ELSE IF h[n].data[1].hProperties = Undefined THEN << >>
    ELSE OrElse(h[n].data[1].hProperties[1].className, << >>)

\* Node t of arena h is a title node for keyword k: a paragraph labelled
\* callout-title only, holding an html leaf and then the capitalized keyword.
IsTitleNode(h, t, k) ==
    /\ h[t].type = "paragraph"
    /\ Labels(h, t) = <<calloutTitleLabel>>
    /\ Len(h[t].children) = 2
    /\ h[t].children[1].type = "html"
    /\ h[t].children[2].type = "text"
    /\ h[t].children[2].value = Capitalized(k)

\* w is v without its leading whitespace.
IsTrimOf(w, v) ==
    \E j \in 0..Len(v) :
       /\ \A i \in 1..j : v[i] \in WhiteSpace
       /\ w = SubSeq(v, j + 1, Len(v))
       /\ (w = << >> \/ w[1] \notin WhiteSpace)

\* Node p is a child of no container of arena h: it is not in the tree.
Absent(h, p) ==
    \A m \in DOMAIN h : h[m].type \in ContainerTypes => p \notin Range(h[m].children)

\* The nodes of the subtree of arena h rooted at node n.
RECURSIVE Subtree(_, _)
Subtree(h, n) ==
    {n} \cup (IF h[n].type \in ContainerTypes
              THEN UNION { Subtree(h, c) : c \in Range(h[n].children) }
              ELSE { })

\* The subtree of input node n is identical in the tree.
SubtreeUnchanged(n) == \A m \in Subtree(input, n) : tree[m] = input[m]

\* Input blockquote n is as it was: its own child list and data, and each of
\* its child paragraphs; and its whole subtree, unless a blockquote nested
\* in it matches on its own account.
Untouched(n) ==
    /\ tree[n] = input[n]
    /\ \A c \in Range(input[n].children) :
          input[c].type = "paragraph" => tree[c] = input[c]
    /\ Subtree(input, n) \cap Matched = { } => SubtreeUnchanged(n)

\* The first paragraph of input blockquote n (n matched).
FirstOf(n) == input[n].children[1]

-----------------------------------------------------------------------------
(* Properties *)

\* C1: after a pass, every blockquote whose first paragraph started with a
\* link reference '!<keyword>', in any letter-casing of one of the five
\* keywords, has the label 'callout-<keyword lower-cased>' among its labels
\* and a title whose text is the keyword with only its first letter
\* upper-cased.
TypeCoverage ==
    Passed =>
      \A n \in InputBlockquotes : \A k \in MarkerKeywords(input, n) :
         /\ calloutPrefix \o k \in Range(Labels(tree, n))
         /\ Len(tree[n].children) >= 1
         /\ IsTitleNode(tree, tree[n].children[1], k)

\* The marker '!WARNING' was rewritten to label callout-warning, title Warning.
TypeCoverageWitness ==
    /\ Passed
    /\ Len(input) = 3
    /\ input[3].children # << >>
    /\ input[3].children[1] = LinkReference(Some(<<"!","W","A","R","N","I","N","G">>))
    /\ calloutPrefix \o warning \in Range(Labels(tree, 2))
    /\ tree[tree[2].children[1]].children[2].value = <<"W","a","r","n","i","n","g">>

\* C2: a blockquote whose first paragraph does not start with a link
\* reference whose whole identifier is '!' and one of the five keywords is
\* never modified: its child list, its data (labels) and its child
\* paragraphs (inline children and text values) are those of the input, and
\* so is everything below it unless a blockquote nested in it matches on its
\* own account; a tree none of whose blockquotes matches is left identical
\* to the input.
NonMatchPassthrough ==
    /\ \A n \in InputBlockquotes :
          (FirstParagraph(input, n) # { } /\ MarkerKeywords(input, n) = { }) =>
             Untouched(n)
    /\ Matched = { } => tree = input

\* A pass is over on a blockquote led by the near miss '!note extra'.
NonMatchPassthroughWitness ==
    /\ Passed
    /\ Len(input) = 3
    /\ input[3].children # << >>
    /\ input[3].children[1] =
          LinkReference(Some(<<"!","n","o","t","e"," ","e","x","t","r","a">>))
    /\ Len(input[3].children) > 1
    /\ tree = input

\* C3: every further pass leaves the tree exactly as the first pass returned
\* it, and no blockquote the first pass rewrote has a first child that starts
\* with a link reference.
Idempotence ==
    Passed =>
      /\ tree = outputs[1]
      /\ \A i \in DOMAIN outputs : outputs[i] = outputs[1]
      /\ \A n \in InputBlockquotes :
            outputs[1][n] # input[n] =>
               LET t == outputs[1][outputs[1][n].children[1]] IN
                 /\ t.type = "paragraph"
                 /\ t.children[1].type # "linkReference"

\* Two passes are over on a blockquote that was rewritten and whose child
\* after the title is a paragraph that starts with a recognized marker.
IdempotenceWitness ==
    /\ Len(outputs) >= 2
    /\ \E n \in Matched :
          /\ Len(tree[n].children) >= 2
          /\ tree[tree[n].children[2]].type = "paragraph"
          /\ tree[tree[n].children[2]].children # << >>
          /\ tree[tree[n].children[2]].children[1].type = "linkReference"
          /\ calloutPattern(identifierOrEmpty(tree[tree[n].children[2]].children[1]))
                # Undefined

\* The blockquotes whose marker is followed by a text node in the same
\* paragraph.
MarkerThenText ==
    { n \in Matched :
        /\ Len(input[FirstOf(n)].children) >= 2
        /\ input[FirstOf(n)].children[2].type = "text" }

\* What C4 says of blockquote n apart from the length of its child list: the
\* title node, then the original first paragraph without the marker and with
\* its text trimmed at the front only, and the two callout labels.
BodyPreservedAt(n) ==
    LET p == FirstOf(n)
        k == CHOOSE k \in MarkerKeywords(input, n) : TRUE
    IN  /\ Len(tree[n].children) >= 2
        /\ IsTitleNode(tree, tree[n].children[1], k)
        /\ tree[n].children[2] = p
        /\ tree[p].type = "paragraph"
        /\ Len(tree[p].children) = Len(input[p].children) - 1
        /\ tree[p].children[1].type = "text"
        /\ IsTrimOf(tree[p].children[1].value, input[p].children[2].value)
        /\ Tail(tree[p].children) = Tail(Tail(input[p].children))
        /\ Labels(tree, n) = <<calloutLabel, calloutPrefix \o k>>

\* C4 as stated: when the marker is followed by text in the same paragraph,
\* the rewritten blockquote's children are the title node and the trimmed
\* paragraph, and nothing else.
BodyPreservationAsStated ==
    Passed =>
      \A n \in MarkerThenText :
         BodyPreservedAt(n) /\ Len(tree[n].children) = 2

\* C4, amended: when the marker is followed by text in the same paragraph,
\* the rewritten blockquote's children are the title node, then the original
\* first paragraph without the marker and with its text trimmed at the front
\* only, then the blockquote's other original children, unchanged and in
\* order; its labels are callout and callout-<type>.
BodyPreservation ==
    Passed =>
      \A n \in MarkerThenText :
         /\ BodyPreservedAt(n)
         /\ Tail(Tail(tree[n].children)) = Tail(input[n].children)

\* The marker '!tip' followed by the text '\nUse shortcuts.' left the
\* paragraph with the text 'Use shortcuts.' after the title.
BodyPreservationWitness ==
    /\ Passed
    /\ Len(input) = 3
    /\ input[3].children = <<LinkReference(Some(<<"!">> \o tip)), Text(useShortcuts)>>
    /\ Len(tree[2].children) = 2
    /\ tree[3].children = <<Text(Tail(useShortcuts))>>
    /\ Labels(tree, 2) = <<calloutLabel, calloutPrefix \o tip>>

\* The blockquotes whose marker is the only content of the first paragraph.
MarkerAlone == { n \in Matched : Len(input[FirstOf(n)].children) = 1 }

\* C5 as stated: when the marker is the only content of the first paragraph,
\* the rewritten blockquote's children are exactly the title node.
EmptyParagraphCollapseAsStated ==
    Passed =>
      \A n \in MarkerAlone :
         /\ Len(tree[n].children) = 1
         /\ \E k \in MarkerKeywords(input, n) : IsTitleNode(tree, tree[n].children[1], k)
         /\ Absent(tree, FirstOf(n))

\* C5, amended: when the marker is the only content of the first paragraph,
\* the rewritten blockquote's children are the title node followed by the
\* blockquote's other original children; the emptied paragraph is not in the
\* tree.
EmptyParagraphCollapse ==
    Passed =>
      \A n \in MarkerAlone :
         /\ Len(tree[n].children) >= 1
         /\ \E k \in MarkerKeywords(input, n) : IsTitleNode(tree, tree[n].children[1], k)
         /\ Tail(tree[n].children) = Tail(input[n].children)
         /\ Absent(tree, FirstOf(n))

\* A blockquote holding only a marker paragraph is left with the title alone.
EmptyParagraphCollapseWitness ==
    /\ Passed
    /\ \E n \in MarkerAlone :
          /\ Len(input[n].children) = 1
          /\ Len(tree[n].children) = 1
          /\ tree[n].children[1] > Len(input)

\* The blockquotes the guard of the visitor lets through: no children, or a
\* first child that is no paragraph.
Guarded == { n \in InputBlockquotes : FirstParagraph(input, n) = { } }

\* C6: a blockquote with no children, and one whose first child is not a
\* paragraph, are never modified (a blockquote nested in one is rewritten
\* only on its own account), and the pass does not throw.
GuardSafety ==
    /\ pc # "threw"
    /\ \A n \in Guarded : Untouched(n)

\* A pass is over on a tree with an empty blockquote and a blockquote whose
\* first child is a code block followed by a marker-led paragraph.
GuardSafetyWitness ==
    /\ Passed
    /\ \E n \in Guarded : input[n].children = << >>
    /\ \E n \in Guarded :
          /\ Len(input[n].children) = 2
          /\ input[input[n].children[1]].type = "code"
          /\ input[input[n].children[2]].children[1]
                = LinkReference(Some(<<"!">> \o note))

\* The shapes C7 lists: a guarded blockquote, or one whose first paragraph
\* has no inline children, or starts with a node that is neither a link
\* reference nor a text, or with a text, or with a link reference whose
\* identifier is missing or empty.
SilentSkip(n) ==
    \/ n \in Guarded
    \/ LET ch == input[FirstOf(n)].children IN
         \/ ch = << >>
         \/ ch[1].type # "linkReference"
         \/ ch[1].identifier = Undefined
         \/ ch[1].identifier = Some(<< >>)

\* C7: the pass never throws, whatever the tree; no blockquote of one of
\* the listed shapes is ever modified; and a tree all of whose blockquotes
\* have such a shape stays identical to the input.
NeverThrows ==
    /\ pc # "threw"
    /\ \A n \in InputBlockquotes : SilentSkip(n) => Untouched(n)
    /\ (\A n \in InputBlockquotes : SilentSkip(n)) => tree = input

\* A pass is over on a blockquote whose first paragraph has no inline
\* children.
NeverThrowsWitness ==
    /\ Passed
    /\ pc = "idle"
    /\ \E n \in InputBlockquotes :
          /\ FirstParagraph(input, n) # { }
          /\ input[FirstOf(n)].children = << >>

\* The blockquotes the pass has rewritten so far.
Rewritten == { n \in InputBlockquotes : tree[n] # input[n] }

\* C8: the first child of every rewritten blockquote is the title node: a
\* paragraph whose only label is callout-title and whose two children are an
\* html icon leaf and then a text node holding the capitalized keyword.
TitleFirst ==
    \A n \in Rewritten :
       /\ Len(tree[n].children) >= 1
       /\ \E k \in CalloutType : IsTitleNode(tree, tree[n].children[1], k)
       /\ tree[tree[n].children[1]].children[1].value[1] = svgOpen

\* A pass is over and has rewritten a blockquote nested in a rewritten one.
TitleFirstWitness ==
    /\ Passed
    /\ \E n \in Rewritten : \E m \in Rewritten :
          m \in Range(tree[n].children)

\* C9: every rewritten blockquote has exactly the labels callout and
\* callout-<type>, a title that lower-cased is <type>, and an icon leaf
\* holding the path the table gives for <type>, where <type> is the keyword
\* of the blockquote's own marker.
TypeAgreement ==
    \A n \in Rewritten :
       \E k \in MarkerKeywords(input, n) :
          LET title == tree[tree[n].children[1]] IN
            /\ Labels(tree, n) = <<calloutLabel, calloutPrefix \o k>>
            /\ toLowerCase(title.children[2].value) = k
            /\ title.children[1].value = <<svgOpen, iconPaths(k), svgClose>>

\* Two blockquotes of one tree were rewritten with different types, one of
\* them from an upper-case marker.
TypeAgreementWitness ==
    /\ Passed
    /\ \E n \in Rewritten : \E m \in Rewritten :
          /\ Labels(tree, n) = <<calloutLabel, calloutPrefix \o note>>
          /\ Labels(tree, m) = <<calloutLabel, calloutPrefix \o tip>>

\* The first text node among inline nodes ch, as a set.
FirstTextRun(ch) ==
    { ch[i] : i \in { j \in DOMAIN ch :
                        ch[j].type = "text" /\ \A l \in 1..(j - 1) : ch[l].type # "text" } }

\* What C10 says of the place of the first paragraph of blockquote n: gone
\* from the tree if the marker was all it held, otherwise the same node at
\* index 1, after the title node.
FirstParagraphPlaced(n) ==
    LET p == FirstOf(n) IN
    IF Len(input[p].children) = 1
    THEN Absent(tree, p)
    ELSE /\ Len(tree[n].children) >= 2
         /\ \E k \in CalloutType : IsTitleNode(tree, tree[n].children[1], k)
         /\ tree[n].children[2] = p
         /\ \A m \in DOMAIN tree :
               (tree[m].type \in ContainerTypes /\ m # n) => p \notin Range(tree[m].children)

\* C10 as stated: the retained paragraph's first remaining text run has no
\* leading whitespace.
FirstParagraphFateAsStated ==
    Passed =>
      \A n \in Matched :
         /\ FirstParagraphPlaced(n)
         /\ \A t \in FirstTextRun(tree[FirstOf(n)].children) :
               t.value = << >> \/ t.value[1] \notin WhiteSpace

\* C10, amended: after a rewrite the original first paragraph is out of the
\* tree if the marker was all it held; otherwise it is the same node at
\* index 1, after the title node, and its inline children are the original
\* ones after the marker, the first of them with its leading whitespace
\* removed if it is a text node and unchanged if it is not (a text node
\* further on is not trimmed).
FirstParagraphFate ==
    Passed =>
      \A n \in Matched :
         LET p == FirstOf(n) IN
         /\ FirstParagraphPlaced(n)
         /\ tree[p].type = "paragraph" /\ tree[p].data = input[p].data
         /\ Len(tree[p].children) = Len(input[p].children) - 1
         /\ Len(input[p].children) >= 2 =>
               /\ Tail(tree[p].children) = Tail(Tail(input[p].children))
               /\ IF input[p].children[2].type = "text"
                  THEN /\ tree[p].children[1].type = "text"
                       /\ IsTrimOf(tree[p].children[1].value, input[p].children[2].value)
                  ELSE tree[p].children[1] = input[p].children[2]

\* A retained paragraph starts with an emphasis followed by a text node that
\* still starts with whitespace.
FirstParagraphFateWitness ==
    /\ Passed
    /\ \E n \in Matched :
          LET p == FirstOf(n) IN
          /\ Len(tree[n].children) >= 2
          /\ tree[n].children[2] = p
          /\ Len(tree[p].children) = 2
          /\ tree[p].children[1] = Emphasis
          /\ tree[p].children[2] = Text(blank)

\* The children a rewritten blockquote n has after the title node: the
\* original first paragraph unless the marker was all it held, then the
\* other original children.
AfterTitle(n) ==
    (IF Len(input[FirstOf(n)].children) = 1 THEN << >> ELSE <<FirstOf(n)>>)
       \o Tail(input[n].children)

\* The paragraph does not start with a text node that starts with whitespace.
TrimmedAtFront(p) ==
    \/ p.children = << >>
    \/ p.children[1].type # "text"
    \/ p.children[1].value = << >>
    \/ p.children[1].value[1] \notin WhiteSpace

\* C11 as stated: every rewritten blockquote consists of the title node
\* followed by zero or one paragraph, trimmed at the front.
OutputShapeAsStated ==
    \A n \in Rewritten :
       /\ n \in Matched
       /\ \E k \in CalloutType : IsTitleNode(tree, tree[n].children[1], k)
       /\ Len(tree[n].children) <= 2
       /\ Len(tree[n].children) = 2 =>
             /\ tree[tree[n].children[2]].type = "paragraph"
             /\ TrimmedAtFront(tree[tree[n].children[2]])

\* C11, amended: every rewritten blockquote consists of the title node as
\* first child, followed by the original first paragraph (unless the marker
\* was all it held) trimmed at the front, followed by the blockquote's other
\* original children in their order.
OutputShape ==
    \A n \in Rewritten :
       /\ n \in Matched
       /\ \E k \in CalloutType : IsTitleNode(tree, tree[n].children[1], k)
       /\ Tail(tree[n].children) = AfterTitle(n)
       /\ Len(input[FirstOf(n)].children) > 1 =>
             /\ tree[FirstOf(n)].type = "paragraph"
             /\ TrimmedAtFront(tree[FirstOf(n)])

\* A rewritten blockquote has three children: the title, the body paragraph
\* and a second paragraph.
OutputShapeWitness ==
    /\ Passed
    /\ \E n \in Rewritten :
          /\ Len(tree[n].children) = 3
          /\ tree[n].children[2] = FirstOf(n)
          /\ tree[tree[n].children[3]].type = "paragraph"

\* Blockquote n has been rewritten as its own marker asks: the title of its
\* keyword first, the two labels, and the marker gone from its first
\* paragraph.
RewrittenAsMarked(n) ==
    \E k \in MarkerKeywords(input, n) :
       /\ Len(tree[n].children) >= 1
       /\ IsTitleNode(tree, tree[n].children[1], k)
       /\ Labels(tree, n) = <<calloutLabel, calloutPrefix \o k>>
       /\ Len(tree[FirstOf(n)].children) = Len(input[FirstOf(n)].children) - 1

\* C12: when a pass is over, every blockquote of the tree, at whatever depth
\* and in whatever container, whose first paragraph started with a
\* recognized marker has been rewritten, and every other blockquote is as it
\* was.
EveryMatchRewritten ==
    Passed =>
      \A n \in InputBlockquotes :
         IF n \in Matched THEN RewrittenAsMarked(n) ELSE Untouched(n)

\* Three blockquotes nested in each other (one of them through a list) were
\* all rewritten by one pass.
EveryMatchRewrittenWitness ==
    /\ Len(outputs) = 1
    /\ Len(input) = 9
    /\ Matched = {2, 6, 8}
    /\ \A n \in Matched : RewrittenAsMarked(n)
    /\ 8 \in Range(tree[6].children)

\* Inline node x is a marker: a link reference whose identifier is '!' and a
\* casing of a keyword.
IsMarker(x) ==
    /\ x.type = "linkReference"
    /\ x.identifier # Undefined
    /\ \E k \in CalloutType :
          /\ Len(x.identifier[1]) = 1 + Len(k)
          /\ x.identifier[1][1] = "!"
          /\ IsCasingOf(Tail(x.identifier[1]), k)

\* The places <<j, i>> of input blockquote n where a marker stands: inline
\* child i of the paragraph that is child j of n.
MarkerPlaces(n) ==
    UNION { { <<j, i>> : i \in { i \in DOMAIN input[input[n].children[j]].children :
                                     IsMarker(input[input[n].children[j]].children[i]) } } :
            j \in { j \in DOMAIN input[n].children :
                      input[input[n].children[j]].type = "paragraph" } }

\* Blockquotes holding a marker, but none at the head of the first child.
Misplaced ==
    { n \in InputBlockquotes : MarkerPlaces(n) # { } /\ <<1, 1>> \notin MarkerPlaces(n) }

\* C15: a blockquote is rewritten only when the marker is the first inline
\* child of its first child, a paragraph; a marker after another inline
\* node, in the middle of a paragraph, or leading a second or later
\* paragraph leaves the blockquote as it was.
MarkerPosition ==
    \A n \in InputBlockquotes :
       /\ tree[n] # input[n] => <<1, 1>> \in MarkerPlaces(n)
       /\ n \in Misplaced => Untouched(n)

\* A pass is over a blockquote whose first paragraph holds a marker after a
\* text node and whose second paragraph starts with a marker.
MarkerPositionWitness ==
    /\ Len(outputs) = 1
    /\ \E n \in Misplaced :
          /\ {<<1, 2>>, <<2, 1>>} \subseteq MarkerPlaces(n)
          /\ Untouched(n)

\* C18: in the first paragraph of a rewritten blockquote, the inline
\* children after the marker are kept one for one; the first of them, if it
\* is a text node, loses the whitespace at the start of its value and
\* nothing else (the rest of the value, interior and trailing whitespace
\* included, stays) and is left as it is if it is not a text node; every
\* later inline child, text starting with whitespace included, is unchanged.
TrimTouchesOneValue ==
    \A n \in Matched \cap Rewritten :
       LET old == Tail(input[FirstOf(n)].children)
           new == tree[FirstOf(n)].children
       IN
       /\ Len(new) = Len(old)
       /\ \A i \in DOMAIN old :
             IF i = 1 /\ old[1].type = "text"
             THEN /\ new[1] = [old[1] EXCEPT !.value = new[1].value]
                  /\ IsTrimOf(new[1].value, old[1].value)
             ELSE new[i] = old[i]

\* A rewritten blockquote whose first paragraph held, after the marker, a
\* text with leading, interior and trailing whitespace and then a text of
\* whitespace only: the first lost its two leading characters, the second
\* is as it was.
TrimTouchesOneValueWitness ==
    \E n \in Matched \cap Rewritten :
       /\ Tail(input[FirstOf(n)].children) = <<Text(spaced), Text(blank)>>
       /\ tree[FirstOf(n)].children = <<Text(<<"a"," ","b"," ">>), Text(blank)>>

\* The first paragraph of input blockquote n has lost an inline child.
Stripped(n) ==
    \E p \in FirstParagraph(input, n) : Len(tree[p].children) < Len(input[p].children)

\* Blockquote n carries the two callout labels.
Labelled(n) ==
    /\ Len(Labels(tree, n)) = 2
    /\ Labels(tree, n)[1] = calloutLabel
    /\ \E k \in CalloutType : Labels(tree, n)[2] = calloutPrefix \o k

\* The first child of blockquote n is a title node.
Titled(n) ==
    /\ Len(tree[n].children) >= 1
    /\ \E k \in CalloutType : IsTitleNode(tree, tree[n].children[1], k)

\* C20: a blockquote has lost its marker if and only if it carries the two
\* callout labels, if and only if its first child is a title node: in the
\* tree a pass hands over, and in every state before, no blockquote has a
\* stripped marker without title and labels.
AllOrNothing ==
    \A n \in InputBlockquotes :
       /\ Stripped(n) <=> Labelled(n)
       /\ Labelled(n) <=> Titled(n)

\* A pass is over a tree with a blockquote that has all three and another,
\* led by a link reference that is no marker, that has none.
AllOrNothingWitness ==
    /\ Len(outputs) = 1
    /\ \E n \in InputBlockquotes : Stripped(n) /\ Labelled(n) /\ Titled(n)
    /\ \E m \in InputBlockquotes :
          /\ ~Stripped(m) /\ ~Labelled(m) /\ ~Titled(m)
          /\ \E p \in FirstParagraph(input, m) :
                /\ Len(input[p].children) >= 1
                /\ input[p].children[1].type = "linkReference"

\* The first paragraphs of the matched blockquotes.
MatchedFirstParagraphs == { FirstOf(n) : n \in Matched }

\* The entries of ch that are nodes of the input, in their order in ch.
Originals(ch) == SelectSeq(ch, LAMBDA c : c \in DOMAIN input)

\* The blockquotes of arena h that hang under its root.
BlockquotesOf(h) == { m \in Subtree(h, 1) : h[m].type = "blockquote" }

\* Data d2 is data d1 but for the class names: an entry d1 had is kept.
OnlyLabelsChanged(d1, d2) ==
    /\ d2 # Undefined
    /\ d2[1].hProperties # Undefined
    /\ d1 # Undefined =>
          /\ d2[1].hName = d1[1].hName
          /\ d1[1].hProperties # Undefined =>
                d2[1].hProperties[1].id = d1[1].hProperties[1].id

\* What the tree may differ in from the input: a matched blockquote's child
\* list and labels, its first paragraph's inline children, and the title
\* nodes added.
FrameOfPass ==
    /\ \A m \in DOMAIN input :
          m \notin Matched \cup MatchedFirstParagraphs => tree[m] = input[m]
    /\ \A n \in Matched :
          /\ tree[n].type = "blockquote"
          /\ tree[n] # input[n] => OnlyLabelsChanged(input[n].data, tree[n].data)
          /\ Originals(tree[n].children) \in {input[n].children, Tail(input[n].children)}
          /\ \A c \in Range(input[n].children) :
                input[c].type = "blockquote" => c \in Range(tree[n].children)
          /\ tree[FirstOf(n)] = [input[FirstOf(n)] EXCEPT !.children = tree[FirstOf(n)].children]
    /\ \A m \in DOMAIN tree \ DOMAIN input : tree[m].type = "paragraph"
    /\ BlockquotesOf(tree) = BlockquotesOf(input)

\* What one step of the pass may change: nothing, or the matched blockquote
\* it visits (child list and labels), that blockquote's first paragraph
\* (inline children), and one node added, the title; the child list of the
\* node that holds the blockquote is not among them.
FrameOfStep ==
    tree' # tree =>
       \E n \in Matched :
          /\ pc = "visiting" /\ n = NextChild
          /\ Len(tree') = Len(tree) + 1
          /\ \A m \in DOMAIN tree : m \notin {n, FirstOf(n)} => tree'[m] = tree[m]
          /\ \A m \in DOMAIN tree :
                tree[m].type \in ContainerTypes /\ n \in Range(tree[m].children)
                   => tree'[m].children = tree[m].children
          /\ OnlyLabelsChanged(tree[n].data, tree'[n].data)
          /\ tree'[FirstOf(n)] = [tree[FirstOf(n)] EXCEPT !.children = tree'[FirstOf(n)].children]

\* C19: the pass changes only matched blockquotes (child list, labels) and
\* their first paragraph (inline children, first text value): every other
\* node of the input is as it was, a rewrite leaves the child list that
\* holds the blockquote alone, the original children of a node keep their
\* order, and the blockquotes of the tree are those of the input.
OnlyMatchedChange == [](FrameOfPass) /\ [][FrameOfStep]_vars

\* A pass is over a tree whose root holds a list with a rewritten blockquote
\* and, next to the list, a blockquote that did not match: the root's child
\* list and the list are as they were.
OnlyMatchedChangeWitness ==
    /\ Len(outputs) = 1
    /\ Len(input) = 7
    /\ input[1].children = <<2, 6>>
    /\ Matched = {4}
    /\ 4 \in Rewritten
    /\ tree[1] = input[1] /\ tree[2] = input[2] /\ tree[3] = input[3]
    /\ tree[6] = input[6] /\ tree[7] = input[7]

\* No blockquote has been handed to the visitor twice in the current pass,
\* the visitor is handed nodes of the input only, and when a pass is over
\* the blockquotes handed to the visitor are all the blockquotes of the
\* tree, which are those of the input.
OnceEach ==
    /\ \A i, j \in DOMAIN calls : calls[i] = calls[j] => i = j
    /\ Range(calls) \subseteq InputBlockquotes
    /\ (pc = "idle" /\ Passed) =>
          /\ Range(calls) = InputBlockquotes
          /\ Range(calls) = BlockquotesOf(tree)

\* C17: a pass that has started comes to its end, and the visitor is called
\* on each blockquote exactly once, whatever it shifts from and unshifts to
\* child lists on the way; the title nodes add no blockquote to visit.
TerminatesOnceEach == [](OnceEach) /\ ((pc = "visiting") ~> (pc = "idle"))

\* A pass is over a blockquote that lost its first paragraph and gained a
\* title while the walk was on it, and the blockquote nested behind that
\* paragraph was visited, once, and rewritten too.
TerminatesOnceEachWitness ==
    /\ pc = "idle"
    /\ Len(outputs) = 1
    /\ Len(input) = 5
    /\ calls = <<2, 4>>
    /\ Len(tree[2].children) = 2
    /\ IsTitleNode(tree, tree[2].children[1], note)
    /\ tree[2].children[2] = 4
    /\ 4 \in Rewritten

-----------------------------------------------------------------------------
(* The pass as a function, and a second invocation of the same transform *)

\* One move of the traversal from configuration c (tree, stack, pc), pc
\* being "visiting": the moves of VisitBlockquote, Enter, Leaf, Return and
\* Finish.
walk(c) ==
    LET top  == c.stack[Len(c.stack)]
        kids == c.tree[top.node].children
    IN
    IF top.offset < Len(kids)
    THEN LET ch == kids[top.offset + 1] IN
         IF c.tree[ch].type = "blockquote"
         THEN LET r == visitor(c.tree, ch) IN
              IF r.threw
              THEN [tree |-> r.tree, stack |-> << >>, pc |-> "threw"]
              ELSE [tree |-> r.tree, stack |-> Append(c.stack, Frame(ch, 0)), pc |-> c.pc]
         ELSE IF c.tree[ch].type \in ContainerTypes
         THEN [c EXCEPT !.stack = Append(@, Frame(ch, 0))]
         ELSE [c EXCEPT !.stack = Advance(@)]
    ELSE IF Len(c.stack) > 1
    THEN [c EXCEPT !.stack = Advance(SubSeq(@, 1, Len(@) - 1))]
    ELSE [c EXCEPT !.stack = << >>, !.pc = "idle"]

\* The traversal from configuration c to its end.
RECURSIVE run(_)
run(c) == IF c.pc = "visiting" THEN run(walk(c)) ELSE c

\* transform(doc) run alone, from start to end: the tree it leaves.
Alone(doc) == run([tree |-> doc, stack |-> <<Frame(1, 0)>>, pc |-> "visiting"]).tree

\* Documents for two invocations.
SharedTrees ==
    { DocOne(p, Undefined) : p \in DeepParagraphs }
      \cup { DocNestedLater(<<LinkReference(Some(<<"!">> \o note))>>,
                            <<LinkReference(Some(<<"!","T","I","P">>)), Text(useShortcuts)>>),
              DocInList(<<LinkReference(Some(<<"!">> \o note)), Text(useShortcuts)>>,
                        <<LinkReference(Some(<<"!">> \o note))>>) }

\* Document b as the second invocation gets it. (met: a move of this
\* invocation has fallen between two moves of a pass of the first.)
Parsed(b) == [tree |-> b, input |-> b, stack |-> << >>, pc |-> "idle", met |-> FALSE]

\* Two documents are parsed, each into a tree of its own.
InitShared ==
    /\ input \in SharedTrees
    /\ tree = input
    /\ stack = << >>
    /\ pc = "idle"
    /\ outputs = << >>
    /\ icons = iconTable
    /\ calls = << >>
    /\ \E b \in SharedTrees : other = Parsed(b)
    /\ served = 0

\* The second invocation: transform(other.tree) is called.
OtherTransform ==
    /\ other.pc = "idle"
    /\ other' = [other EXCEPT !.pc = "visiting", !.stack = <<Frame(1, 0)>>]
    /\ UNCHANGED <<tree, input, stack, pc, outputs, icons, calls, served>>

\* The second invocation memoizes the icon markup in the shared table.
OtherStepMemo ==
    /\ other.pc = "visiting"
    /\ LET c == walk([tree |-> other.tree, stack |-> other.stack, pc |-> other.pc]) IN
         /\ other' = [other EXCEPT !.tree = c.tree, !.stack = c.stack,
                                   !.pc = IF c.pc = "idle" THEN "done" ELSE c.pc,
                                   !.met = @ \/ pc = "visiting"]
         /\ served' = IF c.pc = "idle" THEN served + 1 ELSE served
         /\ icons' = IF c.tree = other.tree THEN icons
                     ELSE [type \in CalloutType |-> "cached"]
    /\ UNCHANGED <<tree, input, stack, pc, outputs, calls>>

\* The second invocation makes one move of its traversal; at the end of the
\* pass its document is served.
OtherStep ==
    /\ other.pc = "visiting"
    /\ LET c == walk([tree |-> other.tree, stack |-> other.stack, pc |-> other.pc]) IN
         /\ other' = [other EXCEPT !.tree = c.tree, !.stack = c.stack,
                                   !.pc = IF c.pc = "idle" THEN "done" ELSE c.pc,
                                   !.met = @ \/ pc = "visiting"]
         /\ served' = IF c.pc = "idle" THEN served + 1 ELSE served
    /\ UNCHANGED <<tree, input, stack, pc, outputs, icons, calls>>

\* The same transform is handed the next document.
OtherLoad ==
    /\ other.pc = "done"
    /\ served < MaxDocs
    /\ \E b \in SharedTrees : other' = Parsed(b)
    /\ UNCHANGED <<tree, input, stack, pc, outputs, icons, calls, served>>

NextShared ==
    \/ Transform \/ VisitBlockquote \/ Enter \/ Leaf \/ Return \/ Finish
    \/ OtherTransform \/ OtherStep \/ OtherLoad

SpecShared == InitShared /\ [][NextShared]_vars

\* The second invocation has come to the end of a pass.
OtherPassed == other.pc = "done"

\* Each tree that has been through a pass is as the transform run alone on
\* its input leaves it, and the keyword-to-icon table is the table of the
\* start.
AsAlone ==
    /\ icons = iconTable
    /\ Passed => outputs[1] = Alone(input)
    /\ OtherPassed => other.tree = Alone(other.input)

\* A move of the first invocation's traversal is the move walk makes, and
\* leaves the second invocation's tree alone; a move of the second leaves
\* the first one's tree alone.
MovesApart ==
    /\ (pc = "visiting" /\ <<tree, stack, pc>> # <<tree', stack', pc'>>) =>
          /\ [tree |-> tree', stack |-> stack', pc |-> pc']
                = walk([tree |-> tree, stack |-> stack, pc |-> pc])
          /\ other' = other
    /\ other' # other => tree' = tree

\* C13: with the moves of two invocations interleaved in any way, each on a
\* tree of its own, each tree ends as the transform run alone on its input
\* leaves it, and the keyword-to-icon table is in every state the table of
\* the start.
Isolation == [](AsAlone) /\ [][MovesApart]_vars

\* Both passes are over and both trees rewritten, two blockquotes each; the
\* second invocation moved while the only pass of the first was on its way.
IsolationWitness ==
    /\ pc = "idle" /\ Len(outputs) = 1
    /\ OtherPassed /\ other.met
    /\ Len(input) = 5 /\ Len(other.input) = 5
    /\ Len(tree) = 7 /\ Len(other.tree) = 7
    /\ outputs[1] = Alone(input)
    /\ other.tree = Alone(other.input)

\* C14: the tree a pass leaves is a function of the document's input tree
\* alone: when the two invocations were given equal input trees, their
\* output trees are equal, however many documents the second one served
\* before and whatever they were.
Stateless ==
    (Passed /\ OtherPassed /\ other.input = input) => other.tree = outputs[1]

\* The second invocation has served a document, then a document equal to
\* the one the first invocation was given; both were rewritten, and alike.
StatelessWitness ==
    /\ Passed /\ OtherPassed
    /\ served = 2
    /\ other.input = input
    /\ Len(outputs[1]) > Len(input)
    /\ other.tree = outputs[1]

-----------------------------------------------------------------------------
(* The blockquotes of a tree taken in any order *)

\* The tree of arena h under node n as a value: the nodes themselves in
\* place of their places in the arena.
RECURSIVE Deep(_, _)
Deep(h, n) ==
    IF h[n].type \in ContainerTypes
    THEN [h[n] EXCEPT !.children = [i \in DOMAIN h[n].children |-> Deep(h, h[n].children[i])]]
    ELSE h[n]

\* Trees with two or three blockquotes.
OrderTrees ==
    { DocGuards(p) : p \in FewParagraphs }
      \cup { DocNestedFirst(p, q) : p \in FewParagraphs, q \in FewParagraphs }
      \cup { DocNestedLater(p, q) : p \in FewParagraphs, q \in FewParagraphs }
      \cup { DocInList(p, q) : p \in FewParagraphs, q \in FewParagraphs }
      \cup { DocDeep(p, q, r) :
                p \in DeepParagraphs, q \in DeepParagraphs, r \in DeepParagraphs }

InitAnyOrder ==
    /\ input \in OrderTrees
    /\ tree = input
    /\ stack = << >>
    /\ pc = "idle"
    /\ outputs = << >>
    /\ icons = iconTable
    /\ calls = << >>
    /\ other = NoOther
    /\ served = 0

\* The visitor is called on a blockquote of the tree it has not been called
\* on in this pass, whichever.
VisitAny ==
    /\ pc = "visiting"
    /\ \E n \in BlockquotesOf(tree) \ Range(calls) :
          LET r == visitor(tree, n) IN
          /\ tree' = r.tree
          /\ pc' = IF r.threw THEN "threw" ELSE pc
          /\ calls' = Append(calls, n)
    /\ UNCHANGED <<input, stack, outputs, icons, other, served>>

\* The visitor has been called on every blockquote: the pass returns.
FinishAny ==
    /\ pc = "visiting"
    /\ BlockquotesOf(tree) \subseteq Range(calls)
    /\ pc' = "idle"
    /\ stack' = << >>
    /\ outputs' = Append(outputs, tree)
    /\ UNCHANGED <<tree, input, icons, calls, other, served>>

NextAnyOrder == Transform \/ VisitAny \/ FinishAny

SpecAnyOrder == InitAnyOrder /\ [][NextAnyOrder]_vars

\* What the visitor reads of blockquote m is as in the input: its record
\* and its first child, if a paragraph.
AsParsed(m) ==
    /\ tree[m] = input[m]
    /\ \A p \in FirstParagraph(input, m) : tree[p] = input[p]

\* C16: whatever the order in which the visitor takes the blockquotes of a
\* tree, the tree at the end is the tree the pass in document order leaves;
\* and until its turn comes a blockquote is as parsed, whichever blockquotes,
\* ancestors and descendants included, were rewritten before it.
OrderIndependence ==
    /\ (pc = "idle" /\ Passed) => Deep(tree, 1) = Deep(Alone(input), 1)
    /\ (pc = "visiting" /\ ~Passed) =>
          \A m \in InputBlockquotes \ Range(calls) : AsParsed(m)

\* A pass is over in which the inner of two nested blockquotes was rewritten
\* before the outer one: the title nodes stand at other places of the arena
\* than after a pass in document order, and the tree is the same.
OrderIndependenceWitness ==
    /\ pc = "idle" /\ Len(outputs) = 1
    /\ Len(input) = 5
    /\ calls = <<4, 2>>
    /\ {2, 4} \subseteq Rewritten
    /\ tree # Alone(input)
    /\ Deep(tree, 1) = Deep(Alone(input), 1)

-----------------------------------------------------------------------------
(* Collapse, kept children, repeated passes *)

\* Text node t holds whitespace only (and at least one character of it).
WhitespaceOnly(t) ==
    /\ t.type = "text"
    /\ t.value # << >>
    /\ \A j \in DOMAIN t.value : t.value[j] \in WhiteSpace

\* The matched blockquotes whose first paragraph held, after the marker, a
\* single text node of whitespace only.
MarkerThenBlank ==
    { n \in Matched :
        /\ Len(input[FirstOf(n)].children) = 2
        /\ WhitespaceOnly(input[FirstOf(n)].children[2]) }

\* C21: the first paragraph of a rewritten blockquote is out of the tree
\* exactly when the marker was its only inline child; when all that is left
\* after the marker is a text node of whitespace, the paragraph stays at
\* index 1 and that text node's value is the empty string.
CollapseByCount ==
    \A n \in Matched \cap Rewritten :
       /\ Absent(tree, FirstOf(n)) <=> Len(input[FirstOf(n)].children) = 1
       /\ n \in MarkerThenBlank =>
             /\ Len(tree[n].children) >= 2
             /\ tree[n].children[2] = FirstOf(n)
             /\ tree[FirstOf(n)].children = <<Text(<< >>)>>

\* A rewritten blockquote whose first paragraph was a marker and then a
\* space and a newline: the paragraph is its second child and holds the
\* empty text.
CollapseByCountWitness ==
    \E n \in MarkerThenBlank \cap Rewritten :
       /\ input[FirstOf(n)].children[2] = Text(blank)
       /\ Len(tree[n].children) = 2
       /\ tree[tree[n].children[2]].children = <<Text(<< >>)>>

\* The children of input blockquote n other than its first.
LaterChildren(n) == Tail(input[n].children)

\* C22: the children of a rewritten blockquote are the title node, then the
\* first paragraph unless it collapsed, then all its other original
\* children, the same nodes in the same order; each of them is as it was,
\* down to its leaves, unless a blockquote in it matched on its own account.
LaterChildrenKept ==
    \A n \in Matched \cap Rewritten :
       /\ Len(tree[n].children) >= 1
       /\ Tail(tree[n].children)
             = (IF Len(input[FirstOf(n)].children) = 1 THEN << >> ELSE <<FirstOf(n)>>)
                  \o LaterChildren(n)
       /\ \A c \in Range(LaterChildren(n)) :
             /\ tree[c].type = input[c].type
             /\ Subtree(input, c) \cap Matched = { } => SubtreeUnchanged(c)

\* A rewritten blockquote that held, after its first paragraph, a paragraph
\* starting with whitespace, a list, a code block and a blockquote: title,
\* first paragraph, and the four of them as they were.
LaterChildrenKeptWitness ==
    /\ Len(outputs) = 1
    /\ Len(input) = 10
    /\ Matched = {2}
    /\ 2 \in Rewritten
    /\ Tail(tree[2].children) = <<3, 4, 5, 8, 9>>
    /\ \A c \in {4, 5, 6, 7, 8, 9, 10} : tree[c] = input[c]

\* The places among the children of blockquote n where a title node stands.
TitlePlaces(n) ==
    { i \in DOMAIN tree[n].children :
        \E k \in CalloutType : IsTitleNode(tree, tree[n].children[i], k) }

\* C23: during and after every pass, the first and each one after it, no
\* blockquote has more than one title node among its children; a rewritten
\* blockquote has its title node at index 0, for the keyword of the marker
\* it was parsed with, and exactly the labels callout and callout-<keyword>.
OneTitleForGood ==
    \A n \in InputBlockquotes :
       /\ Cardinality(TitlePlaces(n)) <= 1
       /\ n \in Rewritten =>
             /\ TitlePlaces(n) = {1}
             /\ \E k \in MarkerKeywords(input, n) :
                   /\ IsTitleNode(tree, tree[n].children[1], k)
                   /\ Labels(tree, n) = <<calloutLabel, calloutPrefix \o k>>

\* Two passes are over a blockquote whose first paragraph was a note marker
\* and then a warning marker: one title, Note, and the labels of a note.
OneTitleForGoodWitness ==
    /\ Len(outputs) = 2
    /\ \E n \in Rewritten :
          /\ MarkerKeywords(input, n) = {note}
          /\ Len(input[FirstOf(n)].children) = 2
          /\ IsMarker(input[FirstOf(n)].children[2])
          /\ TitlePlaces(n) = {1}
          /\ Labels(tree, n) = <<calloutLabel, calloutPrefix \o note>>

\* The matched blockquotes whose first paragraph started with two markers.
TwoMarkers ==
    { n \in Matched :
        /\ Len(input[FirstOf(n)].children) >= 2
        /\ IsMarker(input[FirstOf(n)].children[2]) }

\* C24: a rewrite takes exactly one inline node off the first paragraph, the
\* leading link reference. When a second marker followed it, the keyword is
\* that of the first, the second marker is the first inline child of the
\* paragraph, which stays at index 1, and the blockquote is not rewritten
\* again: in later moves and passes it is as the rewrite left it.
OneMarkerStripped ==
    \A n \in Matched \cap Rewritten :
       /\ Len(tree[FirstOf(n)].children) = Len(input[FirstOf(n)].children) - 1
       /\ n \in TwoMarkers =>
             /\ tree[FirstOf(n)].children = Tail(input[FirstOf(n)].children)
             /\ Len(tree[n].children) >= 2
             /\ tree[n].children[2] = FirstOf(n)
             /\ Cardinality(TitlePlaces(n)) = 1
             /\ \E k \in MarkerKeywords(input, n) :
                   /\ IsTitleNode(tree, tree[n].children[1], k)
                   /\ Labels(tree, n) = <<calloutLabel, calloutPrefix \o k>>
             /\ Passed => tree[n] = outputs[1][n]

\* Two passes are over a blockquote parsed with a note marker and then a tip
\* marker: it is a note, and the tip marker leads its body paragraph.
OneMarkerStrippedWitness ==
    /\ Len(outputs) = 2
    /\ \E n \in TwoMarkers \cap Rewritten :
          /\ MarkerKeywords(input, n) = {note}
          /\ input[FirstOf(n)].children[2] = LinkReference(Some(<<"!">> \o tip))
          /\ tree[FirstOf(n)].children[1] = LinkReference(Some(<<"!">> \o tip))
          /\ IsTitleNode(tree, tree[n].children[1], note)

-----------------------------------------------------------------------------
(* Data of the blockquote, the marker's own fields, child counts *)

\* The entries of data d of a node, those of an empty object if it has none.
EntriesOf(d) == OrElse(d, NoDataEntries)

\* The renderer-hint properties of data d, those of an empty object if none.
PropertiesOf(d) == OrElse(EntriesOf(d).hProperties, NoProps)

\* C25: the data of a rewritten blockquote has as class names exactly callout
\* and callout-<keyword>, whatever class names it had, and every other entry
\* of its data and of its renderer-hint properties as parsed.
LabelsReplaced ==
    \A n \in Matched \cap Rewritten :
       /\ tree[n].data # Undefined
       /\ tree[n].data[1].hProperties # Undefined
       /\ \E k \in MarkerKeywords(input, n) :
             PropertiesOf(tree[n].data).className = Some(<<calloutLabel, calloutPrefix \o k>>)
       /\ PropertiesOf(tree[n].data).id = PropertiesOf(input[n].data).id
       /\ EntriesOf(tree[n].data).hName = EntriesOf(input[n].data).hName

\* A rewritten blockquote that was parsed with a class name, an id and an
\* element name: two class names now, neither the old one, id and element
\* name as they were.
LabelsReplacedWitness ==
    \E n \in Matched \cap Rewritten :
       /\ PropertiesOf(input[n].data).className = Some(<<<<"q">>>>)
       /\ PropertiesOf(input[n].data).id = Some("intro")
       /\ EntriesOf(input[n].data).hName = Some("aside")
       /\ Len(Labels(tree, n)) = 2
       /\ PropertiesOf(tree[n].data).id = Some("intro")
       /\ EntriesOf(tree[n].data).hName = Some("aside")

\* Inline node x with the fields of a link reference other than its
\* identifier blanked.
Bare(x) == [x EXCEPT !.label = Undefined, !.referenceType = Undefined, !.children = << >>]

\* Arenas a and b are the same trees but for the label, the reference kind
\* and the children of the inline node that leads a paragraph.
SameButLead(a, b) ==
    /\ DOMAIN a = DOMAIN b
    /\ \A m \in DOMAIN a :
          \/ a[m] = b[m]
          \/ /\ a[m].type = "paragraph" /\ b[m].type = "paragraph"
             /\ a[m].data = b[m].data
             /\ a[m].children # << >> /\ b[m].children # << >>
             /\ Tail(a[m].children) = Tail(b[m].children)
             /\ Bare(Head(a[m].children)) = Bare(Head(b[m].children))

\* The trees whose single blockquote is led by a variant of the note marker.
VariantTrees == { DocOne(p, Undefined) : p \in VariantParagraphs }

\* C26: the tree a pass leaves for a document is the tree it leaves for any
\* document that differs from it only in the label, the reference kind and
\* the children of the leading link reference; nothing of that link
\* reference is in the tree after the rewrite.
LeadFieldsIgnored ==
    (Passed /\ input \in VariantTrees) =>
       /\ \A d \in VariantTrees : SameButLead(input, d) => outputs[1] = Alone(d)
       /\ \A m \in DOMAIN outputs[1] :
             outputs[1][m].type = "paragraph" =>
                \A i \in DOMAIN outputs[1][m].children :
                   outputs[1][m].children[i].type # "linkReference"

\* A pass is over a blockquote led by a full reference with label !Note and
\* children of its own: the tree is the one the pass leaves for the bare
\* shortcut reference of the same identifier.
LeadFieldsIgnoredWitness ==
    /\ Passed
    /\ input \in VariantTrees
    /\ input[3].children[1].referenceType = Some("full")
    /\ input[3].children[1].label = Some(<<"!","N","o","t","e">>)
    /\ input[3].children[1].children = <<Emphasis, Text(blank)>>
    /\ 2 \in Rewritten
    /\ outputs[1] = Alone(DocOne(<<LinkReference(Some(<<"!">> \o note))>>
                                    \o Tail(input[3].children), Undefined))

\* The number of children blockquote n has more than it was parsed with.
ChildrenGained(n) == Len(tree[n].children) - Len(input[n].children)

\* C27: a rewritten blockquote has as many children as it was parsed with
\* when its first paragraph collapsed (the marker was all it held), one more
\* otherwise; it has at least one child.
ChildCount ==
    \A n \in Matched \cap Rewritten :
       /\ ChildrenGained(n) = (IF Len(input[FirstOf(n)].children) = 1 THEN 0 ELSE 1)
       /\ Absent(tree, FirstOf(n)) <=> ChildrenGained(n) = 0
       /\ Len(tree[n].children) >= 1

\* One tree after a pass holds a blockquote whose only child, a paragraph
\* with the marker alone, gave way to the title (one child before and
\* after), and a blockquote that went from one child to two.
ChildCountWitness ==
    /\ Passed
    /\ \E n \in Matched \cap Rewritten :
          /\ Len(input[n].children) = 1
          /\ Len(tree[n].children) = 1
          /\ Absent(tree, FirstOf(n))
    /\ \E n \in Matched \cap Rewritten :
          /\ Len(input[n].children) = 1
          /\ Len(tree[n].children) = 2

====
